---- MODULE Spec2Model ----
(***************************************************************************)
(* house-finance: statement ingestion (per-issuer parsers with cross-file  *)
(* deduplication and checkpoint-anchored running totals) and the           *)
(* recurring-charge tracker (rc_tracker.py).                               *)
(*                                                                         *)
(* Amounts are integers (pence); dates are day numbers (every parser       *)
(* builds its datetimes from a date without time of day).                  *)
(***************************************************************************)
EXTENDS Integers, Sequences, FiniteSets, TLC

VARIABLES
    parser,            \* which parser class owns the account folder
    files,             \* the folder's source files in processing order, each a list of raw records
    ledger,            \* ledger_amounts.properties, section LedgerAmounts, keys of this folder: date -> value
    file_statements,   \* what _parse_*_file returned per file in the last run (None or a statement)
    statements,        \* what parse_all_statements returned in the last run
    file_kept,         \* per file of the last run: the transactions of the statement kept for it, <<>> if none
    outcome,           \* "idle" before any run, "returned" or "raised" after parse_all_statements
    rc_patterns,       \* config/rc_patterns.json: charge name -> config
    all_transactions,  \* RC_Tracker.all_transactions of the last classification run
    recurring_charges, \* what _load_transactions returned in the last run
    rc_outcome,        \* "idle" before any run, "returned" or "raised" after _load_transactions
    san_input,         \* sanitise: the list passed in
    san_once,          \* sanitise(san_input)
    san_removed,       \* the positions, in date order, that sanitise(san_input) had in to_remove
    san_twice,         \* sanitise(sanitise(san_input))
    san_pc,            \* "start", "once", "twice"
    fit_known,         \* the known transactions of a charge
    fit_date,          \* the candidate's date
    fit_interval,      \* the charge's interval
    fit_sanitised,     \* sanitise(fit_known), the list _fits_interval_pattern is given
    fit_result,        \* what _fits_interval_pattern returned
    fit_pc,            \* "start", "done"
    grp_input,         \* group_transactions: the transactions of all statements, in processing order
    transaction_groups,\* what group_transactions returned: the groups in insertion order of their keys
    grp_pc             \* "start", "done"

ledgerVars == <<parser, files, ledger, file_statements, statements, file_kept, outcome>>

rcVars == <<rc_patterns, all_transactions, recurring_charges, rc_outcome>>

sanVars == <<san_input, san_once, san_removed, san_twice, san_pc>>

fitVars == <<fit_known, fit_date, fit_interval, fit_sanitised, fit_result, fit_pc>>

grpVars == <<grp_input, transaction_groups, grp_pc>>

vars == <<ledgerVars, rcVars, sanVars, fitVars, grpVars>>

----------------------------------------------------------------------------
(* Bounds of the ledger model *)

MaxFileLen == 2

Dates == {1, 2}
BalanceTexts == {"0", "100"}   \* what an operator may write into the properties file

Parsers == {"barclays", "barclaycard", "nationwide", "qif", "virgin", "johnlewis"}

Absent == "absent"     \* the key is not in the properties file
Empty == ""            \* the key is there with an empty value
None == <<>>           \* an Optional is a sequence of length 0 (None) or 1
Some(x) == <<x>>

\* The raw records the source files are made of, as the per-format extraction
\* delivers them: a debit, its reversal on the same day, and a later debit.
RawRecords ==
    { [date |-> 1, amount |-> -5, description |-> "X", type |-> "DEBIT"],
      [date |-> 1, amount |-> 5, description |-> "X", type |-> "CREDIT"],
      [date |-> 2, amount |-> -5, description |-> "X", type |-> "DEBIT"] }

RECURSIVE SeqsUpTo(_, _)
SeqsUpTo(S, n) ==
    IF n = 0 THEN {<<>>}
    ELSE LET shorter == SeqsUpTo(S, n - 1)
         IN shorter \cup { Append(s, x) : s \in { t \in shorter : Len(t) = n - 1 }, x \in S }

FileContents == SeqsUpTo(RawRecords, MaxFileLen)

----------------------------------------------------------------------------
(* Helpers *)

Abs(x) == IF x < 0 THEN -x ELSE x

Reverse(s) == [i \in 1..Len(s) |-> s[Len(s) + 1 - i]]

RECURSIVE SumAmounts(_)
SumAmounts(txs) ==
    IF txs = <<>> THEN 0 ELSE txs[1].amount + SumAmounts(Tail(txs))

\* Python's stable sorted(..., key=...), on <<key, element>> pairs: a pair goes
\* behind every pair whose key is <= its own
RECURSIVE InsertByKey(_, _)
InsertByKey(pair, sorted_pairs) ==
    IF sorted_pairs = <<>> THEN <<pair>>
    ELSE IF sorted_pairs[Len(sorted_pairs)][1] <= pair[1] THEN Append(sorted_pairs, pair)
    ELSE Append(InsertByKey(pair, SubSeq(sorted_pairs, 1, Len(sorted_pairs) - 1)),
                sorted_pairs[Len(sorted_pairs)])

RECURSIVE SortPairs(_)
SortPairs(pairs) ==
    IF pairs = <<>> THEN <<>>
    ELSE InsertByKey(pairs[Len(pairs)], SortPairs(SubSeq(pairs, 1, Len(pairs) - 1)))

\* sorted(s, key=...) where keys[i] is the key of s[i]
SortByKeys(keys, s) ==
    LET sorted_pairs == SortPairs([i \in 1..Len(s) |-> <<keys[i], s[i]>>])
    IN [i \in 1..Len(s) |-> sorted_pairs[i][2]]

SortByDate(txs) == SortByKeys([i \in 1..Len(txs) |-> txs[i].date], txs)

SortByStartDate(statements_list) ==
    SortByKeys([i \in 1..Len(statements_list) |-> statements_list[i].start_date],
               statements_list)

SortIds(ids) == SortByKeys(ids, ids)

MinDate(txs) == CHOOSE d \in {txs[i].date : i \in 1..Len(txs)} :
                    \A i \in 1..Len(txs) : d <= txs[i].date
MaxDateOf(txs) == CHOOSE d \in {txs[i].date : i \in 1..Len(txs)} :
                    \A i \in 1..Len(txs) : d >= txs[i].date

----------------------------------------------------------------------------
(* Transaction identity *)

Subfolder(p) ==
    CASE p = "barclays" -> "barclays-current"
      [] p = "barclaycard" -> "barclaycard-current"
      [] p = "nationwide" -> "nationwide-current"
      [] p = "qif" -> "mbna-credit"
      [] p = "virgin" -> "virgin-credit"
      [] p = "johnlewis" -> "johnlewis"

\* The sha256 digest of the id string is modelled by the id string's fields:
\* equal strings give equal ids and different strings different ids.
\* Barclays formats the signed amount and appends the type.
BarclaysTransactionId(subfolder, r) ==
    <<subfolder, r.date, r.amount, r.description, r.type>>

\* Every other parser formats abs(amount) and leaves the type out.
AbsAmountTransactionId(subfolder, r) ==
    <<subfolder, r.date, Abs(r.amount), r.description>>

GenerateTransactionId(p, r) ==
    IF p = "barclays" THEN BarclaysTransactionId(Subfolder(p), r)
    ELSE AbsAmountTransactionId(Subfolder(p), r)

\* the transaction object a parser builds from a raw record (running_total unset)
MakeTransaction(p, r) ==
    [transaction_id |-> GenerateTransactionId(p, r), date |-> r.date,
     amount |-> r.amount, description |-> r.description, type |-> r.type]

MakeTransactions(p, recs) == [i \in 1..Len(recs) |-> MakeTransaction(p, recs[i])]

----------------------------------------------------------------------------
(* Checkpoint store *)

Decimal(v) == CASE v = "0" -> 0 [] v = "100" -> 100

\* Barclays and Virgin: an empty value reads as Decimal(0)
ReadLedgerAmountEmptyIsZero(L, start_date) ==
    IF L[start_date] # Absent
    THEN [kind |-> "value",
          value |-> IF L[start_date] = Empty THEN 0 ELSE Decimal(L[start_date]),
          ledger |-> L]
    ELSE [kind |-> "none", value |-> 0, ledger |-> [L EXCEPT ![start_date] = Empty]]

\* a faulty variant: the section is rewritten with the new key only
ReadLedgerAmountDropsOthers(L, start_date) ==
    IF L[start_date] # Absent
    THEN IF L[start_date] = Empty
         THEN [kind |-> "raised", value |-> 0, ledger |-> L]
         ELSE [kind |-> "value", value |-> Decimal(L[start_date]), ledger |-> L]
    ELSE [kind |-> "none", value |-> 0,
          ledger |-> [d \in Dates |-> IF d = start_date THEN Empty ELSE Absent]]

\* Barclaycard, Nationwide, QIF, John Lewis: Decimal('') raises InvalidOperation
ReadLedgerAmountStrict(L, start_date) ==
    IF L[start_date] # Absent
    THEN IF L[start_date] = Empty
         THEN [kind |-> "raised", value |-> 0, ledger |-> L]
         ELSE [kind |-> "value", value |-> Decimal(L[start_date]), ledger |-> L]
    ELSE [kind |-> "none", value |-> 0, ledger |-> [L EXCEPT ![start_date] = Empty]]

ReadLedgerAmount(p, L, start_date) ==
    IF p \in {"barclays", "virgin"}
    THEN ReadLedgerAmountEmptyIsZero(L, start_date)
    ELSE ReadLedgerAmountStrict(L, start_date)

----------------------------------------------------------------------------
(* One source file *)

\* running_total = ledger_bal + amounts so far, in the order of the list
WithRunningTotals(ledger_bal, txs) ==
    [i \in 1..Len(txs) |->
        [transaction_id |-> txs[i].transaction_id, date |-> txs[i].date,
         amount |-> txs[i].amount, description |-> txs[i].description,
         type |-> txs[i].type,
         running_total |-> ledger_bal + SumAmounts(SubSeq(txs, 1, i))]]

\* the order in which a parser walks the file's transactions
FileOrder(p, txs) ==
    CASE p \in {"barclays", "qif"} -> Reverse(txs)
      [] p \in {"barclaycard", "virgin"} -> SortByDate(txs)
      [] OTHER -> txs

HasBalances(p) == p \in {"barclays", "nationwide", "johnlewis"}

\* the statement object; dtstart and ledger_bal record the lookup it was built from
BuildStatement(p, ledger_bal, txs) ==
    LET totalled == WithRunningTotals(ledger_bal, txs)
    IN [start_date |-> txs[1].date,
        end_date |-> txs[Len(txs)].date,
        dtstart |-> txs[1].date,
        ledger_bal |-> ledger_bal,
        start_balance |-> CASE p \in {"barclays", "nationwide"} -> ledger_bal - SumAmounts(txs)
                            [] p = "johnlewis" -> ledger_bal
                            [] OTHER -> 0,
        end_balance |-> CASE p \in {"barclays", "nationwide"} -> ledger_bal
                          [] p = "johnlewis" -> ledger_bal + SumAmounts(txs)
                          [] OTHER -> 0,
        transactions |-> IF p \in {"barclays", "barclaycard", "nationwide"}
                         THEN SortByDate(totalled) ELSE totalled]

\* _parse_ofx_file / _parse_qif_file / _parse_csv_file / _parse_pdf_file:
\* the Optional statement and the properties file afterwards
ParseFile(p, L, recs) ==
    IF recs = <<>> THEN [statement |-> None, ledger |-> L]
    ELSE LET txs == FileOrder(p, MakeTransactions(p, recs))
             read == ReadLedgerAmount(p, L, txs[1].date)
         IN IF read.kind = "value"
            THEN [statement |-> Some(BuildStatement(p, read.value, txs)), ledger |-> L]
            ELSE [statement |-> None, ledger |-> read.ledger]

----------------------------------------------------------------------------
(* parse_all_statements *)

\* the loop "if trans.transaction_id not in seen_transactions: add, append"
RECURSIVE UniqueTransactions(_, _)
UniqueTransactions(txs, seen) ==
    IF txs = <<>> THEN <<>>
    ELSE IF txs[1].transaction_id \in seen
         THEN UniqueTransactions(Tail(txs), seen)
         ELSE <<txs[1]>> \o UniqueTransactions(Tail(txs), seen \cup {txs[1].transaction_id})

IdsOf(txs) == {txs[i].transaction_id : i \in 1..Len(txs)}

\* The loop state of parse_all_statements: the statements kept so far, the
\* seen_transactions set, the properties file, whether an exception escaped,
\* the Optional statement each file gave, and per file the transactions of the
\* statement that was appended to statements for it.
LoopStart(L) ==
    [statements |-> <<>>, seen_transactions |-> {}, ledger |-> L,
     raised |-> FALSE, file_statements |-> <<>>, file_kept |-> <<>>]

\* Barclays, Barclaycard, Nationwide: filter the statement against the seen set,
\* keep it when something is left.  Barclays also recomputes start and end date.
KeepUnique(p, st, statement) ==
    LET unique == UniqueTransactions(statement.transactions, st.seen_transactions)
        kept == IF p = "barclays" /\ unique # <<>>
                THEN [statement EXCEPT !.transactions = unique,
                                       !.start_date = MinDate(unique),
                                       !.end_date = MaxDateOf(unique)]
                ELSE [statement EXCEPT !.transactions = unique]
    IN [st EXCEPT !.seen_transactions = @ \cup IdsOf(statement.transactions),
                  !.statements = IF unique # <<>> THEN Append(@, kept) ELSE @,
                  !.file_kept = [@ EXCEPT ![Len(@)] = unique]]

\* QIF: filter, sort by date, look the checkpoint up again for the first unique
\* date (outside any try), recompute the running totals, build a new statement.
KeepUniqueQif(st, statement) ==
    LET unique == UniqueTransactions(statement.transactions, st.seen_transactions)
        sorted == SortByDate(unique)
        read == ReadLedgerAmountStrict(st.ledger, sorted[1].date)
        seen == st.seen_transactions \cup IdsOf(statement.transactions)
    IN IF unique = <<>> THEN [st EXCEPT !.seen_transactions = seen]
       ELSE CASE read.kind = "raised" ->
                    [st EXCEPT !.seen_transactions = seen, !.raised = TRUE]
              [] read.kind = "none" ->
                    [st EXCEPT !.seen_transactions = seen, !.ledger = read.ledger]
              [] OTHER ->
                    [st EXCEPT !.seen_transactions = seen,
                               !.file_kept = [@ EXCEPT ![Len(@)] =
                                                 WithRunningTotals(read.value, sorted)],
                               !.statements = Append(@,
                                   [start_date |-> sorted[1].date,
                                    end_date |-> sorted[Len(sorted)].date,
                                    dtstart |-> sorted[1].date,
                                    ledger_bal |-> read.value,
                                    start_balance |-> 0,
                                    end_balance |-> 0,
                                    transactions |-> WithRunningTotals(read.value, sorted)])]

\* Virgin, John Lewis: every statement is kept as it is
KeepAll(st, statement) ==
    [st EXCEPT !.statements = Append(@, statement),
               !.file_kept = [@ EXCEPT ![Len(@)] = statement.transactions]]

\* a faulty variant: a file that gives no statement ends the loop with an error
LoopBodyStopsAtBadFile(p, st, recs) ==
    IF st.raised THEN st
    ELSE LET parsed == ParseFile(p, st.ledger, recs)
             st1 == [st EXCEPT !.ledger = parsed.ledger,
                               !.file_statements = Append(@, parsed.statement),
                               !.file_kept = Append(@, <<>>)]
         IN IF parsed.statement = None THEN [st1 EXCEPT !.raised = TRUE]
            ELSE CASE p \in {"barclays", "barclaycard", "nationwide"} ->
                          KeepUnique(p, st1, parsed.statement[1])
                   [] p = "qif" -> KeepUniqueQif(st1, parsed.statement[1])
                   [] OTHER -> KeepAll(st1, parsed.statement[1])

\* one iteration of the loop over the folder's files
LoopBody(p, st, recs) ==
    IF st.raised THEN st
    ELSE LET parsed == ParseFile(p, st.ledger, recs)
             st1 == [st EXCEPT !.ledger = parsed.ledger,
                               !.file_statements = Append(@, parsed.statement),
                               !.file_kept = Append(@, <<>>)]
         IN IF parsed.statement = None THEN st1
            ELSE CASE p \in {"barclays", "barclaycard", "nationwide"} ->
                          KeepUnique(p, st1, parsed.statement[1])
                   [] p = "qif" -> KeepUniqueQif(st1, parsed.statement[1])
                   [] OTHER -> KeepAll(st1, parsed.statement[1])

RECURSIVE LoopOver(_, _, _)
LoopOver(p, st, fs) ==
    IF fs = <<>> THEN st ELSE LoopOver(p, LoopBody(p, st, fs[1]), Tail(fs))

\* parse_all_statements: the loop, then sorted(statements, key=start_date)
ParseAllStatements(p, L, fs) ==
    LET st == LoopOver(p, LoopStart(L), fs)
    IN [st EXCEPT !.statements = SortByStartDate(@)]

----------------------------------------------------------------------------
(* rc_tracker.py: RC_Tracker.sanitise *)

CancelWindowDays == 7
CancelTolerancePence == 1     \* Decimal('0.01')

\* a faulty variant: the look-ahead does not stop after 7 days
RECURSIVE FindCancellingAnyDaysAhead(_, _, _, _)
FindCancellingAnyDaysAhead(sorted_trans, i, j, to_remove) ==
    IF j > Len(sorted_trans) THEN 0
    ELSE IF j \in to_remove THEN FindCancellingAnyDaysAhead(sorted_trans, i, j + 1, to_remove)
    ELSE IF Abs(sorted_trans[i].amount + sorted_trans[j].amount) < CancelTolerancePence
         THEN j
    ELSE FindCancellingAnyDaysAhead(sorted_trans, i, j + 1, to_remove)

\* the inner loop: the first later transaction, not yet removed and at most 7
\* days ahead, whose amount cancels that of sorted_trans[i]; 0 when there is none
RECURSIVE FindCancelling(_, _, _, _)
FindCancelling(sorted_trans, i, j, to_remove) ==
    IF j > Len(sorted_trans) THEN 0
    ELSE IF j \in to_remove THEN FindCancelling(sorted_trans, i, j + 1, to_remove)
    ELSE IF sorted_trans[j].date - sorted_trans[i].date > CancelWindowDays THEN 0
    ELSE IF Abs(sorted_trans[i].amount + sorted_trans[j].amount) < CancelTolerancePence
         THEN j
    ELSE FindCancelling(sorted_trans, i, j + 1, to_remove)

\* the outer loop, for i in range(len(sorted_trans) - 1)
RECURSIVE CancellingPairs(_, _, _)
CancellingPairs(sorted_trans, i, to_remove) ==
    IF i > Len(sorted_trans) - 1 THEN to_remove
    ELSE IF i \in to_remove THEN CancellingPairs(sorted_trans, i + 1, to_remove)
    ELSE LET j == FindCancelling(sorted_trans, i, i + 1, to_remove)
         IN CancellingPairs(sorted_trans, i + 1,
                            IF j = 0 THEN to_remove ELSE to_remove \cup {i, j})

RECURSIVE KeepNotRemoved(_, _, _)
KeepNotRemoved(sorted_trans, i, to_remove) ==
    IF i > Len(sorted_trans) THEN <<>>
    ELSE (IF i \in to_remove THEN <<>> ELSE <<sorted_trans[i]>>)
         \o KeepNotRemoved(sorted_trans, i + 1, to_remove)

\* a faulty variant: the outer loop stops at the first cancelling pair it finds
RECURSIVE FirstCancellingPair(_, _)
FirstCancellingPair(sorted_trans, i) ==
    IF i > Len(sorted_trans) - 1 THEN {}
    ELSE LET j == FindCancelling(sorted_trans, i, i + 1, {})
         IN IF j = 0 THEN FirstCancellingPair(sorted_trans, i + 1) ELSE {i, j}

sanitiseFirstPairOnly(transactions) ==
    LET sorted_trans == SortByDate(transactions)
    IN KeepNotRemoved(sorted_trans, 1, FirstCancellingPair(sorted_trans, 1))

sanitise(transactions) ==
    LET sorted_trans == SortByDate(transactions)
    IN KeepNotRemoved(sorted_trans, 1, CancellingPairs(sorted_trans, 1, {}))

----------------------------------------------------------------------------
(* rc_tracker.py: RC_Tracker._fits_interval_pattern *)

Intervals == {"weekly", "biweekly", "monthly", "quarterly", "biannual", "annual", "irregular"}

IntervalDays(interval) ==
    CASE interval = "monthly" -> 30
      [] interval = "quarterly" -> 90
      [] interval = "biannual" -> 180
      [] interval = "annual" -> 365
      [] interval = "weekly" -> 7
      [] interval = "biweekly" -> 14
      [] OTHER -> 30

\* min(existing_dates, key=lambda d: abs(d - date)): the first date of the list
\* at the least distance
ClosestDate(date, existing_trans) ==
    LET best == CHOOSE i \in 1..Len(existing_trans) :
                    /\ \A k \in 1..Len(existing_trans) :
                          Abs(existing_trans[i].date - date) <= Abs(existing_trans[k].date - date)
                    /\ \A k \in 1..(i - 1) :
                          Abs(existing_trans[k].date - date) > Abs(existing_trans[i].date - date)
    IN existing_trans[best].date

\* a faulty variant: 30% variation allowed
WithinThirtyPercent(days_diff, interval_days) ==
    10 * Abs(days_diff - interval_days) <= 3 * interval_days

\* abs(days_diff - interval_days) <= interval_days * 0.2.  The left side is an
\* integer and the double products are 1.4000000000000001, 2.8000000000000003,
\* 6.0, 18.0, 36.0 and 73.0, so the comparison is that of 10*|..| with 2*days.
WithinTolerance(days_diff, interval_days) ==
    10 * Abs(days_diff - interval_days) <= 2 * interval_days

FitsIntervalPattern(date, existing_trans, interval) ==
    IF existing_trans = <<>> THEN TRUE
    ELSE IF interval = "irregular" THEN TRUE
    ELSE LET days_diff == Abs(date - ClosestDate(date, existing_trans))
         IN WithinTolerance(days_diff, IntervalDays(interval))

----------------------------------------------------------------------------
(* rc_tracker.py: RC_Tracker._load_transactions *)

\* re.search(pattern, description, re.IGNORECASE) on the descriptions of the model
Matches(pattern, description) ==
    \/ pattern = ""
    \/ pattern = "NETFLIX" /\ description = "Netflix.com"
    \/ pattern = "GYM" /\ description = "PUREGYM"

\* expressions re cannot compile: re.search raises re.error
InvalidPatterns == {"("}

Range(seq) == {seq[i] : i \in 1..Len(seq)}

\* the transactions txs[i] for which keep[i] holds, in the order of txs
RECURSIVE SelectTrans(_, _)
SelectTrans(keep, txs) ==
    IF txs = <<>> THEN <<>>
    ELSE (IF keep[1] THEN <<txs[1]>> ELSE <<>>) \o SelectTrans(Tail(keep), Tail(txs))

RECURSIVE SetToSortedSeq(_)
SetToSortedSeq(S) ==
    IF S = {} THEN <<>>
    ELSE LET m == CHOOSE x \in S : \A y \in S : x <= y
         IN <<m>> \o SetToSortedSeq(S \ {m})

\* the transactions whose id is a known id
KnownTransactions(known_ids, stream) ==
    SelectTrans([i \in 1..Len(stream) |-> stream[i].transaction_id \in known_ids], stream)

\* the others whose description the pattern finds
NewMatchingTrans(pattern, known_ids, stream) ==
    SelectTrans([i \in 1..Len(stream) |->
                    /\ stream[i].transaction_id \notin known_ids
                    /\ Matches(pattern, stream[i].description)], stream)

\* the search is reached for the first transaction whose id is not known, and an
\* expression that does not compile raises there
SearchRaises(pattern, known_ids, stream) ==
    /\ pattern \in InvalidPatterns
    /\ \E i \in 1..Len(stream) : stream[i].transaction_id \notin known_ids

\* abs(trans.amount - avg_amount) / abs(avg_amount) < 0.2 with avg_amount =
\* total / count in Decimal and 0.2 the double 0.2000000000000000111..., which a
\* quotient of exactly 0.2 is below: the test is 5*|amount*count - total| <= |total|
GoodAmountDiff(amount, known_transactions, sanitised_transactions) ==
    LET total == SumAmounts(sanitised_transactions)
        count == Len(sanitised_transactions)
    IN IF known_transactions # <<>> /\ total # 0
       THEN 5 * Abs(amount * count - total) <= Abs(total)
       ELSE TRUE

\* avg_amount is None and the amount test subtracts it: TypeError
AmountTestRaises(known_transactions, sanitised_transactions, new_matching_trans) ==
    /\ new_matching_trans # <<>>
    /\ known_transactions # <<>>
    /\ sanitised_transactions = <<>>

RECURSIVE MinAbs(_)
MinAbs(txs) ==
    IF Len(txs) = 1 THEN Abs(txs[1].amount)
    ELSE LET m == MinAbs(Tail(txs)) IN IF Abs(txs[1].amount) < m THEN Abs(txs[1].amount) ELSE m

RECURSIVE MaxAbs(_)
MaxAbs(txs) ==
    IF Len(txs) = 1 THEN Abs(txs[1].amount)
    ELSE LET m == MaxAbs(Tail(txs)) IN IF Abs(txs[1].amount) > m THEN Abs(txs[1].amount) ELSE m

RECURSIVE SumAbs(_)
SumAbs(txs) == IF txs = <<>> THEN 0 ELSE Abs(txs[1].amount) + SumAbs(Tail(txs))

\* min, max and avg (as total over count) of the absolute amounts
AmountRange(full_transactions) ==
    IF full_transactions # <<>>
    THEN [min |-> MinAbs(full_transactions), max |-> MaxAbs(full_transactions),
          total |-> SumAbs(full_transactions), count |-> Len(full_transactions)]
    ELSE [min |-> 0, max |-> 0, total |-> 0, count |-> 1]

\* a faulty variant: the ids already persisted are forgotten
NewTransactionIdsOnly(known_ids, new_transactions) ==
    SortIds([i \in 1..Len(new_transactions) |-> new_transactions[i].transaction_id])

\* a faulty variant: the ids accepted in this run are not persisted
KnownTransactionIdsOnly(known_ids, new_transactions) ==
    SortIds(SetToSortedSeq(known_ids))

\* sorted(list(known_ids) + new_transaction_ids)
MergedTransactionIds(known_ids, new_transactions) ==
    SortIds(SetToSortedSeq(known_ids)
            \o [i \in 1..Len(new_transactions) |-> new_transactions[i].transaction_id])

\* one iteration of "for charge_name, config in rc_patterns.items()"
ClassifyCharge(config, stream) ==
    LET known_ids == Range(config.transaction_ids)
        known_transactions == KnownTransactions(known_ids, stream)
        new_matching_trans == NewMatchingTrans(config.pattern, known_ids, stream)
        sanitised_transactions == sanitise(known_transactions)
        Accepted(t) ==
            \/ config.interval = "irregular"
            \/ /\ GoodAmountDiff(t.amount, known_transactions, sanitised_transactions)
               /\ FitsIntervalPattern(t.date, sanitised_transactions, config.interval)
        new_transactions ==
            SelectTrans([i \in 1..Len(new_matching_trans) |-> Accepted(new_matching_trans[i])],
                        new_matching_trans)
        amount_range == AmountRange(SortByDate(known_transactions \o new_transactions))
    IN [raised |-> \/ SearchRaises(config.pattern, known_ids, stream)
                   \/ AmountTestRaises(known_transactions, sanitised_transactions,
                                       new_matching_trans),
        known_transactions |-> known_transactions,
        new_transactions |-> new_transactions,
        interval |-> config.interval,
        amount_range |-> amount_range,
        transaction_ids |-> MergedTransactionIds(known_ids, new_transactions),
        status |-> config.status,
        status_change_date |-> config.status_change_date]

\* a faulty variant: the update writes the default status
UpdatedConfigSetsRunning(config, charge) ==
    [config EXCEPT !.transaction_ids = charge.transaction_ids,
                   !.amount_range = charge.amount_range,
                   !.status = "running",
                   !.status_change_date = charge.status_change_date]

\* rc_patterns[charge_name].update({...}); last_updated (the wall clock) is left out
UpdatedConfig(config, charge) ==
    [config EXCEPT !.transaction_ids = charge.transaction_ids,
                   !.amount_range = charge.amount_range,
                   !.status = charge.status,
                   !.status_change_date = charge.status_change_date]

\* _load_transactions: every charge is classified, then the file is rewritten;
\* an exception in the loop leaves the file as it was
LoadTransactions(patterns, stream) ==
    LET charges == [name \in DOMAIN patterns |-> ClassifyCharge(patterns[name], stream)]
        raised == \E name \in DOMAIN patterns : charges[name].raised
    IN [raised |-> raised,
        recurring_charges |-> charges,
        rc_patterns |-> IF raised THEN patterns
                        ELSE [name \in DOMAIN patterns |->
                                UpdatedConfig(patterns[name], charges[name])]]

----------------------------------------------------------------------------
(* build_transaction_categories.py: clean_description                     *)
(* A str is a sequence of one-character strings.                          *)

Digits == {"0", "1", "2", "3", "4", "5", "6", "7", "8", "9"}
UpperLetters == <<"A", "B", "C", "D", "E", "F", "G", "H", "I", "J", "K", "L", "M", "N", "O", "P", "Q", "R", "S", "T", "U", "V", "W", "X", "Y", "Z">>
LowerLetters == <<"a", "b", "c", "d", "e", "f", "g", "h", "i", "j", "k", "l", "m", "n", "o", "p", "q", "r", "s", "t", "u", "v", "w", "x", "y", "z">>
WordChars == Range(UpperLetters) \cup Range(LowerLetters) \cup Digits \cup {"_"}   \* \w
Whitespace == {" "}                                                              \* \s

\* str.upper()
UpperChar(c) ==
    IF \E i \in 1..Len(LowerLetters) : LowerLetters[i] = c
    THEN UpperLetters[CHOOSE i \in 1..Len(LowerLetters) : LowerLetters[i] = c]
    ELSE c

Upper(desc) == [i \in 1..Len(desc) |-> UpperChar(desc[i])]

\* desc[i-1:].startswith(sub), positions counted from 1
OccursAt(desc, sub, i) ==
    /\ i >= 1
    /\ i + Len(sub) - 1 <= Len(desc)
    /\ \A k \in 1..Len(sub) : desc[i + k - 1] = sub[k]

\* sub in desc
Contains(desc, sub) == \E i \in 1..Len(desc) : OccursAt(desc, sub, i)

\* any(sub in desc for sub in subs)
ContainsAny(desc, subs) == \E k \in 1..Len(subs) : Contains(desc, subs[k])

IsWordChar(desc, i) == i >= 1 /\ i <= Len(desc) /\ desc[i] \in WordChars

IsDigit(desc, i) == i >= 1 /\ i <= Len(desc) /\ desc[i] \in Digits

\* \b between the characters at i - 1 and i
Boundary(desc, i) == IsWordChar(desc, i - 1) # IsWordChar(desc, i)

\* \bword\b matches at i
WordAt(desc, word, i) ==
    OccursAt(desc, word, i) /\ Boundary(desc, i) /\ Boundary(desc, i + Len(word))

CreditCardAliases ==
    << <<"M", "B", "N", "A", " ", "P", "L", "A", "T", "I", "N", "U", "M">>,
       <<"B", "A", "R", "C", "L", "A", "Y", "C", "A", "R", "D", " ", "V", "I", "S", "A">>,
       <<"H", "A", "L", "I", "F", "A", "X", " ", "D", "D", "R">>,
       <<"J", "O", "H", "N", " ", "L", "E", "W", "I", "S">>,
       <<"V", "I", "R", "G", "I", "N", " ", "M", "O", "N", "E", "Y">>,
       <<"M", "B", "N", "A", " ", "C", "R", "E", "D", "I", "T", " ", "C", "A", "R", "D">>,
       <<"B", "A", "R", "C", "L", "A", "Y", "C", "A", "R", "D">>,
       <<"H", "A", "L", "I", "F", "A", "X", " ", "C", "R", "E", "D", "I", "T">>,
       <<"4", "9", "2", "9", "1", "5", "3", "1", "9", "5", "6", "0", "5">> >>

SainsburyAliases == << <<"S", "A", "I", "N", "S", "B", "U", "R", "Y">>,
                       <<"S", "A", "I", "N", "S", "B", "U", "R", "Y", "S">>,
                       <<"S", "A", "I", "N", "S", "B", "U", "R", "Y", "'", "S">> >>

PaymentMarkers == << <<"-", " ", "T", "H", "A", "N">>,
                     <<"T", "H", "A", "N", "K", " ", "Y", "O", "U">> >>

PaymentWords == << <<"P", "A", "Y", "M", "E", "N", "T">>,
                   <<"T", "H", "A", "N", "K", "Y", "O", "U">>,
                   <<"T", "H", "A", "N", "K", " ", "Y", "O", "U">> >>

\* len(re.split(r'\b(PAYMENT|THANKYOU|THANK YOU)\b', desc)) > 1
SplitsOnPaymentWord(desc) ==
    \E i \in 1..Len(desc), k \in 1..Len(PaymentWords) : WordAt(desc, PaymentWords[k], i)

\* the special handling at the head of clean_description: the canonical key of
\* the first rule the upper-cased description meets, None if it meets none
AliasKey(desc) ==
    IF ContainsAny(desc, CreditCardAliases) THEN Some(<<"C", "R", "E", "D", "I", "T", " ", "C", "A", "R", "D", " ", "P", "A", "Y", "M", "E", "N", "T">>)
    ELSE IF Contains(desc, <<"A", "L", "D", "I">>) THEN Some(<<"A", "L", "D", "I", " ", "S", "T", "O", "R", "E">>)
    ELSE IF ContainsAny(desc, SainsburyAliases) THEN Some(<<"S", "A", "I", "N", "S", "B", "U", "R", "Y", "S", " ", "S", "T", "O", "R", "E">>)
    ELSE IF Contains(desc, <<"A", "P", "S", "L", "E", "Y", " ", "S", "T", "N">>) THEN Some(<<"A", "P", "S", "L", "E", "Y", " ", "S", "T", "A", "T", "I", "O", "N">>)
    ELSE IF Contains(desc, <<"S", "U", "P", "E", "R", "C", "U", "T", "S">>) THEN Some(<<"S", "U", "P", "E", "R", "C", "U", "T", "S">>)
    ELSE IF Contains(desc, <<"M", "O", "R", "T", "G", "A", "G", "E">>) THEN Some(<<"M", "O", "R", "T", "G", "A", "G", "E">>)
    ELSE IF Contains(desc, <<"A", "N", "I", "M", "A", "L", " ", "H", "E", "A", "L", "T", "H", "C", "A", "R", "E">>)
         THEN Some(<<"A", "N", "I", "M", "A", "L", " ", "H", "E", "A", "L", "T", "H", "C", "A", "R", "E">>)
    ELSE IF OccursAt(desc, <<"P", "R", "I", "M", "E", " ", "V", "I", "D", "E", "O">>, 1) THEN Some(<<"P", "R", "I", "M", "E", " ", "V", "I", "D", "E", "O">>)
    ELSE IF ContainsAny(desc, PaymentMarkers) /\ SplitsOnPaymentWord(desc)
         THEN Some(<<"C", "R", "E", "D", "I", "T", " ", "C", "A", "R", "D", " ", "P", "A", "Y", "M", "E", "N", "T">>)
    ELSE None

ColonGroupAt(desc, i) ==
    i <= Len(desc) /\ desc[i] = ":" /\ IsDigit(desc, i + 1) /\ IsDigit(desc, i + 2)

\* the length of what \d{2}(?::\d{2})?(?::\d{2})? matches at i, 0 if it does not
TimeMatchLen(desc, i) ==
    IF ~(IsDigit(desc, i) /\ IsDigit(desc, i + 1)) THEN 0
    ELSE IF ~ColonGroupAt(desc, i + 2) THEN 2
    ELSE IF ~ColonGroupAt(desc, i + 5) THEN 5
    ELSE 8

\* re.sub(r'\d{2}(?::\d{2})?(?::\d{2})?', '', desc), scanning from i
RECURSIVE RemoveTimes(_, _)
RemoveTimes(desc, i) ==
    IF i > Len(desc) THEN <<>>
    ELSE IF TimeMatchLen(desc, i) > 0 THEN RemoveTimes(desc, i + TimeMatchLen(desc, i))
    ELSE <<desc[i]>> \o RemoveTimes(desc, i + 1)

DateSeparators == {"-", "/", "."}

IsSeparator(desc, i) == i >= 1 /\ i <= Len(desc) /\ desc[i] \in DateSeparators

AllDigits(desc, i, n) == \A k \in 0..(n - 1) : IsDigit(desc, i + k)

\* \b\d{a}[-/.]\d{b}[-/.]\d{c}\b matches at i
DateAt(desc, i, a, b, c) ==
    /\ Boundary(desc, i)
    /\ AllDigits(desc, i, a)
    /\ IsSeparator(desc, i + a)
    /\ AllDigits(desc, i + a + 1, b)
    /\ IsSeparator(desc, i + a + 1 + b)
    /\ AllDigits(desc, i + a + b + 2, c)
    /\ Boundary(desc, i + a + b + 2 + c)

\* the length of what \b\d{1,4}[-/.]\d{1,2}[-/.]\d{2,4}\b matches at i, 0 if
\* it does not (the separators and the closing \b leave one choice of lengths)
DateMatchLen(desc, i) ==
    LET lengths == {t \in (1..4) \X (1..2) \X (2..4) : DateAt(desc, i, t[1], t[2], t[3])}
    IN IF lengths = {} THEN 0
       ELSE LET t == CHOOSE t \in lengths : TRUE IN t[1] + t[2] + t[3] + 2

\* re.sub(r'\b\d{1,4}[-/.]\d{1,2}[-/.]\d{2,4}\b', '', desc), scanning from i
RECURSIVE RemoveDates(_, _)
RemoveDates(desc, i) ==
    IF i > Len(desc) THEN <<>>
    ELSE IF DateMatchLen(desc, i) > 0 THEN RemoveDates(desc, i + DateMatchLen(desc, i))
    ELSE <<desc[i]>> \o RemoveDates(desc, i + 1)

RECURSIVE DigitRun(_, _)
DigitRun(desc, i) == IF IsDigit(desc, i) THEN 1 + DigitRun(desc, i + 1) ELSE 0

\* the length of what \b\d+\b matches at i, 0 if it does not
NumberMatchLen(desc, i) ==
    IF DigitRun(desc, i) > 0 /\ Boundary(desc, i) /\ Boundary(desc, i + DigitRun(desc, i))
    THEN DigitRun(desc, i)
    ELSE 0

\* re.sub(r'\b\d+\b', '', desc), scanning from i
RECURSIVE RemoveNumbers(_, _)
RemoveNumbers(desc, i) ==
    IF i > Len(desc) THEN <<>>
    ELSE IF NumberMatchLen(desc, i) > 0 THEN RemoveNumbers(desc, i + NumberMatchLen(desc, i))
    ELSE <<desc[i]>> \o RemoveNumbers(desc, i + 1)

\* re.sub(r'[^\w\s]', '', desc)
RECURSIVE RemovePunctuation(_)
RemovePunctuation(desc) ==
    IF desc = <<>> THEN <<>>
    ELSE (IF Head(desc) \in WordChars \cup Whitespace THEN <<Head(desc)>> ELSE <<>>)
         \o RemovePunctuation(Tail(desc))

CompanySuffixes ==
    << <<"L", "T", "D">>,
       <<"L", "I", "M", "I", "T", "E", "D">>,
       <<"U", "K">>,
       <<"G", "B">>,
       <<"I", "N", "T">>,
       <<"I", "N", "T", "L">>,
       <<"I", "N", "T", "E", "R", "N", "A", "T", "I", "O", "N", "A", "L">> >>

CommonWords ==
    << <<"T", "H", "E">>,
       <<"A", "N", "D">>,
       <<"O", "F">>,
       <<"I", "N">>,
       <<"A", "T">>,
       <<"T", "O">>,
       <<"F", "R", "O", "M">> >>

CityNames ==
    << <<"L", "O", "N", "D", "O", "N">>,
       <<"M", "A", "N", "C", "H", "E", "S", "T", "E", "R">>,
       <<"B", "I", "R", "M", "I", "N", "G", "H", "A", "M">>,
       <<"L", "E", "E", "D", "S">>,
       <<"B", "R", "I", "S", "T", "O", "L">> >>

\* the length of the first alternative of \b(w1|w2|...)\b that matches at i, 0 if none
RECURSIVE WordMatchLen(_, _, _)
WordMatchLen(desc, words, i) ==
    IF words = <<>> THEN 0
    ELSE IF WordAt(desc, Head(words), i) THEN Len(Head(words))
    ELSE WordMatchLen(desc, Tail(words), i)

\* re.sub(r'\b(w1|w2|...)\b', '', desc), scanning from i
RECURSIVE RemoveWords(_, _, _)
RemoveWords(desc, words, i) ==
    IF i > Len(desc) THEN <<>>
    ELSE IF WordMatchLen(desc, words, i) > 0
         THEN RemoveWords(desc, words, i + WordMatchLen(desc, words, i))
    ELSE <<desc[i]>> \o RemoveWords(desc, words, i + 1)

\* the length of the first alternative of (s1|s2|...) that matches at i, 0 if none
RECURSIVE SubstringMatchLen(_, _, _)
SubstringMatchLen(desc, subs, i) ==
    IF subs = <<>> THEN 0
    ELSE IF OccursAt(desc, Head(subs), i) THEN Len(Head(subs))
    ELSE SubstringMatchLen(desc, Tail(subs), i)

\* re.sub(r'(s1|s2|...)', '', desc), scanning from i
RECURSIVE RemoveSubstrings(_, _, _)
RemoveSubstrings(desc, subs, i) ==
    IF i > Len(desc) THEN <<>>
    ELSE IF SubstringMatchLen(desc, subs, i) > 0
         THEN RemoveSubstrings(desc, subs, i + SubstringMatchLen(desc, subs, i))
    ELSE <<desc[i]>> \o RemoveSubstrings(desc, subs, i + 1)

\* ' '.join(desc.split()).strip(), scanning from i: a run of whitespace between
\* two words becomes one space, a run at either end goes
RECURSIVE JoinSplit(_, _)
JoinSplit(desc, i) ==
    IF i > Len(desc) THEN <<>>
    ELSE IF desc[i] \notin Whitespace THEN <<desc[i]>> \o JoinSplit(desc, i + 1)
    ELSE IF /\ i > 1
            /\ desc[i - 1] \notin Whitespace
            /\ \E j \in (i + 1)..Len(desc) : desc[j] \notin Whitespace
         THEN <<" ">> \o JoinSplit(desc, i + 1)
    ELSE JoinSplit(desc, i + 1)

\* the generic normalisation of an upper-cased description (lines 60-73)
Normalise(desc) ==
    LET no_times == RemoveTimes(desc, 1)
        no_dates == RemoveDates(no_times, 1)
        no_numbers == RemoveNumbers(no_dates, 1)
        no_punctuation == RemovePunctuation(no_numbers)
        no_suffixes == RemoveWords(no_punctuation, CompanySuffixes, 1)
        no_common == RemoveWords(no_suffixes, CommonWords, 1)
        no_cities == RemoveSubstrings(no_common, CityNames, 1)
    IN JoinSplit(no_cities, 1)

clean_description(raw) ==
    LET desc == Upper(raw)
    IN IF AliasKey(desc) # None THEN AliasKey(desc)[1] ELSE Normalise(desc)

----------------------------------------------------------------------------
(* build_transaction_categories.py: find_similar_group, group_transactions *)

Min3(a, b, c) ==
    IF a <= b /\ a <= c THEN a ELSE IF b <= c THEN b ELSE c

\* one row of the edit-distance table, filled from the left: row[j + 1] is the
\* distance between the prefix of s ending with the character c and t[1..j],
\* prev the row of the prefix before c
RECURSIVE ExtendRow(_, _, _, _)
ExtendRow(prev, c, t, row) ==
    IF Len(row) = Len(t) + 1 THEN row
    ELSE LET j == Len(row)
         IN ExtendRow(prev, c, t,
                      Append(row, Min3(prev[j + 1] + 1, row[j] + 1,
                                       prev[j] + (IF c = t[j] THEN 0 ELSE 1))))

RECURSIVE LastRow(_, _, _, _)
LastRow(s, t, i, prev) ==
    IF i > Len(s) THEN prev
    ELSE LastRow(s, t, i + 1, ExtendRow(prev, s[i], t, <<prev[1] + 1>>))

\* Levenshtein.distance(s, t): insertions, deletions and substitutions cost 1
distance(s, t) == LastRow(s, t, 1, [j \in 1..(Len(t) + 1) |-> j - 1])[Len(t) + 1]

threshold == 5

\* a faulty variant: the last key within the threshold
RECURSIVE find_last_similar_group(_, _)
find_last_similar_group(clean_desc, existing_groups) ==
    IF existing_groups = <<>> THEN None
    ELSE IF find_last_similar_group(clean_desc, Tail(existing_groups)) # None
         THEN find_last_similar_group(clean_desc, Tail(existing_groups))
    ELSE IF distance(clean_desc, Head(existing_groups).key) <= threshold
         THEN Some(Head(existing_groups).key)
    ELSE None

\* the first key, in insertion order, within the threshold; None if there is none
RECURSIVE find_similar_group(_, _)
find_similar_group(clean_desc, existing_groups) ==
    IF existing_groups = <<>> THEN None
    ELSE IF distance(clean_desc, Head(existing_groups).key) <= threshold
         THEN Some(Head(existing_groups).key)
    ELSE find_similar_group(clean_desc, Tail(existing_groups))

\* a faulty variant: the key is never found among the groups
AddToGroupAlwaysNew(groups, group_key, trans) ==
    Append(groups, [key |-> group_key, variations |-> <<trans.description>>,
                    total |-> trans.amount])

\* transaction_groups[group_key] = (variations + [description], total + amount),
\* the default of a key not yet there being ([], 0)
AddToGroup(groups, group_key, trans) ==
    IF \E i \in 1..Len(groups) : groups[i].key = group_key
    THEN LET i == CHOOSE i \in 1..Len(groups) : groups[i].key = group_key
         IN [groups EXCEPT ![i].variations = Append(@, trans.description),
                           ![i].total = @ + trans.amount]
    ELSE Append(groups, [key |-> group_key, variations |-> <<trans.description>>,
                         total |-> trans.amount])

\* the body of "for trans in statement.transactions"
GroupOne(groups, trans) ==
    LET clean_desc == clean_description(trans.description)
        found == find_similar_group(clean_desc, groups)
    IN IF clean_desc = <<>> THEN groups
       ELSE AddToGroup(groups, IF found # None THEN found[1] ELSE clean_desc, trans)

RECURSIVE GroupFrom(_, _)
GroupFrom(groups, transactions) ==
    IF transactions = <<>> THEN groups
    ELSE GroupFrom(GroupOne(groups, Head(transactions)), Tail(transactions))

\* group_transactions over the transactions of all statements of all folders
group_transactions(transactions) == GroupFrom(<<>>, transactions)

----------------------------------------------------------------------------
(* The ledger specification: one account folder, run after run *)

NoLedger == [d \in Dates |-> Absent]

\* the variables of the other specifications, while they are not under study
LedgerIdle ==
    /\ parser = "barclays"
    /\ files = <<>>
    /\ ledger = NoLedger
    /\ file_statements = <<>>
    /\ statements = <<>>
    /\ file_kept = <<>>
    /\ outcome = "idle"

RcIdle ==
    /\ rc_patterns = <<>>
    /\ all_transactions = <<>>
    /\ recurring_charges = <<>>
    /\ rc_outcome = "idle"

SanIdle ==
    /\ san_input = <<>>
    /\ san_once = <<>>
    /\ san_removed = {}
    /\ san_twice = <<>>
    /\ san_pc = "idle"

FitIdle ==
    /\ fit_known = <<>>
    /\ fit_date = 0
    /\ fit_interval = "monthly"
    /\ fit_sanitised = <<>>
    /\ fit_result = FALSE
    /\ fit_pc = "idle"

GrpIdle ==
    /\ grp_input = <<>>
    /\ transaction_groups = <<>>
    /\ grp_pc = "idle"

Init ==
    /\ parser \in Parsers
    /\ files \in [1..2 -> FileContents]
    /\ ledger = NoLedger
    /\ file_statements = <<>>
    /\ statements = <<>>
    /\ file_kept = <<>>
    /\ outcome = "idle"
    /\ RcIdle /\ SanIdle /\ FitIdle /\ GrpIdle

\* a run of the batch over the folder
Run ==
    /\ \E r \in {ParseAllStatements(parser, ledger, files)} :
          /\ ledger' = r.ledger
          /\ file_statements' = r.file_statements
          /\ statements' = IF r.raised THEN <<>> ELSE r.statements
          /\ file_kept' = IF r.raised THEN <<>> ELSE r.file_kept
          /\ outcome' = IF r.raised THEN "raised" ELSE "returned"
    /\ UNCHANGED <<parser, files>>
    /\ UNCHANGED <<rcVars, sanVars, fitVars, grpVars>>

\* between runs the operator writes a balance into the properties file
OperatorWrite ==
    /\ \E d \in Dates, v \in BalanceTexts :
          /\ ledger[d] # v
          /\ ledger' = [ledger EXCEPT ![d] = v]
    /\ file_statements' = <<>>
    /\ statements' = <<>>
    /\ file_kept' = <<>>
    /\ outcome' = "idle"
    /\ UNCHANGED <<parser, files>>
    /\ UNCHANGED <<rcVars, sanVars, fitVars, grpVars>>

Next == Run \/ OperatorWrite

Spec == Init /\ [][Next]_vars

----------------------------------------------------------------------------
(* One source file parsed against any state of the properties file *)

\* what a key of the properties file may hold
LedgerTexts == {Absent, Empty} \cup BalanceTexts

InitParseFile ==
    /\ parser \in Parsers
    /\ files \in [1..1 -> FileContents]
    /\ ledger \in [Dates -> LedgerTexts]
    /\ file_statements = <<>>
    /\ statements = <<>>
    /\ file_kept = <<>>
    /\ outcome = "idle"
    /\ RcIdle /\ SanIdle /\ FitIdle /\ GrpIdle

\* _parse_ofx_file / _parse_qif_file / _parse_csv_file / _parse_pdf_file on the file
ParseOneFile ==
    /\ outcome = "idle"
    /\ \E r \in {ParseFile(parser, ledger, files[1])} :
          /\ ledger' = r.ledger
          /\ file_statements' = <<r.statement>>
    /\ outcome' = "parsed"
    /\ UNCHANGED <<parser, files, statements, file_kept>>
    /\ UNCHANGED <<rcVars, sanVars, fitVars, grpVars>>

NextParseFile == ParseOneFile

SpecParseFile == InitParseFile /\ [][NextParseFile]_vars

----------------------------------------------------------------------------
(* The tracker specification: classification run after classification run *)

MaxStream == 3

ChargeNames == {"Netflix", "Gym"}

\* The transactions the combined statements may hold: a subscription charge, its
\* refund three days later, the charges of the following months (one of them 16
\* days late, one 30% dearer), and a charge of another merchant.
RcTransactions ==
    { [transaction_id |-> 1, date |-> 0, amount |-> -1000, description |-> "Netflix.com"],
      [transaction_id |-> 2, date |-> 3, amount |-> 1000, description |-> "Netflix.com"],
      [transaction_id |-> 3, date |-> 30, amount |-> -1000, description |-> "Netflix.com"],
      [transaction_id |-> 4, date |-> 46, amount |-> -1000, description |-> "Netflix.com"],
      [transaction_id |-> 5, date |-> 61, amount |-> -1300, description |-> "Netflix.com"],
      [transaction_id |-> 6, date |-> 10, amount |-> -2500, description |-> "PUREGYM"] }

RECURSIVE InDateOrder(_)
InDateOrder(S) ==
    IF S = {} THEN <<>>
    ELSE LET m == CHOOSE x \in S : \A y \in S : x.date <= y.date
         IN <<m>> \o InDateOrder(S \ {m})

\* sorted(self._combine_transactions(statements_by_folder), key=date)
Streams == { InDateOrder(S) : S \in { T \in SUBSET RcTransactions : Cardinality(T) <= MaxStream } }

InitialConfig(pattern, interval) ==
    [pattern |-> pattern, interval |-> interval, transaction_ids |-> <<>>,
     amount_range |-> AmountRange(<<>>), status |-> "running", status_change_date |-> ""]

\* a monthly charge and an irregular one, as the operator first writes them
InitRC ==
    /\ rc_patterns = [name \in ChargeNames |->
                        IF name = "Netflix" THEN InitialConfig("NETFLIX", "monthly")
                        ELSE InitialConfig("GYM", "irregular")]
    /\ all_transactions = <<>>
    /\ recurring_charges = <<>>
    /\ rc_outcome = "idle"
    /\ LedgerIdle /\ SanIdle /\ FitIdle /\ GrpIdle

\* track_recurring_charges over the combined statements of a batch, one of streams
TrackOver(streams) ==
    /\ \E stream \in streams :
          \E r \in {LoadTransactions(rc_patterns, stream)} :
             /\ rc_patterns' = r.rc_patterns
             /\ all_transactions' = stream
             /\ recurring_charges' = IF r.raised THEN <<>> ELSE r.recurring_charges
             /\ rc_outcome' = IF r.raised THEN "raised" ELSE "returned"
    /\ UNCHANGED <<ledgerVars, sanVars, fitVars, grpVars>>

TrackRecurringCharges == TrackOver(Streams)

\* between runs the operator marks a charge cancelled in rc_patterns.json
OperatorCancels ==
    /\ \E name \in ChargeNames :
          /\ rc_patterns[name].status = "running"
          /\ rc_patterns' = [rc_patterns EXCEPT ![name].status = "cancelled",
                                                ![name].status_change_date = "2024-06-01"]
    /\ all_transactions' = <<>>
    /\ recurring_charges' = <<>>
    /\ rc_outcome' = "idle"
    /\ UNCHANGED <<ledgerVars, sanVars, fitVars, grpVars>>

NextRC == TrackRecurringCharges \/ OperatorCancels

SpecRC == InitRC /\ [][NextRC]_vars

----------------------------------------------------------------------------
(* The tracker with a pattern the operator left empty or mistyped *)

OperatorPatterns == {"", "(", "NETFLIX"}

\* rc_patterns.json as the operator wrote it: the expression of the first charge
\* is any of OperatorPatterns, the second charge is well formed
InitPatterns ==
    /\ \E pattern \in OperatorPatterns :
          rc_patterns = [name \in ChargeNames |->
                            IF name = "Netflix" THEN InitialConfig(pattern, "monthly")
                            ELSE InitialConfig("GYM", "irregular")]
    /\ all_transactions = <<>>
    /\ recurring_charges = <<>>
    /\ rc_outcome = "idle"
    /\ LedgerIdle /\ SanIdle /\ FitIdle /\ GrpIdle

NextPatterns == TrackRecurringCharges

SpecPatterns == InitPatterns /\ [][NextPatterns]_vars

----------------------------------------------------------------------------
(* The tracker over statements that overlap, with amounts at the limit of *)
(* the amount test                                                         *)

MaxOverlapStream == 3

\* A subscription charge, the charges of the next month 20% dearer and a penny
\* more than that, and a charge of another merchant.
OverlapTransactions ==
    { [transaction_id |-> 1, date |-> 0, amount |-> -1000, description |-> "Netflix.com"],
      [transaction_id |-> 7, date |-> 30, amount |-> -1200, description |-> "Netflix.com"],
      [transaction_id |-> 8, date |-> 30, amount |-> -1201, description |-> "Netflix.com"],
      [transaction_id |-> 6, date |-> 10, amount |-> -2500, description |-> "PUREGYM"] }

\* sorted(self._combine_transactions(statements_by_folder), key=date) where the
\* statements of an account may hold a transaction more than once (the Virgin
\* and John Lewis parsers do not deduplicate across files)
OverlapStreams ==
    { SortByDate(stream) : stream \in SeqsUpTo(OverlapTransactions, MaxOverlapStream) }

TrackOverlappingStatements == TrackOver(OverlapStreams)

NextOverlap == TrackOverlappingStatements

SpecOverlap == InitRC /\ [][NextOverlap]_vars

----------------------------------------------------------------------------
(* The tracker run again and again over the same statements *)

MaxRepeatStream == 3

\* A subscription charge, its refund three days later, the charges of the two
\* following months, and a charge of another merchant.
RepeatTransactions ==
    { [transaction_id |-> 1, date |-> 0, amount |-> -1000, description |-> "Netflix.com"],
      [transaction_id |-> 2, date |-> 3, amount |-> 1000, description |-> "Netflix.com"],
      [transaction_id |-> 3, date |-> 30, amount |-> -1000, description |-> "Netflix.com"],
      [transaction_id |-> 9, date |-> 60, amount |-> -1000, description |-> "Netflix.com"],
      [transaction_id |-> 6, date |-> 10, amount |-> -2500, description |-> "PUREGYM"] }

RepeatStreams ==
    { InDateOrder(S) : S \in { T \in SUBSET RepeatTransactions :
                                  Cardinality(T) <= MaxRepeatStream } }

\* rc_patterns.json as an earlier batch of statements left it
PatternsOfEarlierBatch ==
    LET patterns == [name \in ChargeNames |->
                        IF name = "Netflix" THEN InitialConfig("NETFLIX", "monthly")
                        ELSE InitialConfig("GYM", "irregular")]
    IN { LoadTransactions(patterns, stream).rc_patterns : stream \in RepeatStreams }

InitRepeat ==
    /\ rc_patterns \in PatternsOfEarlierBatch
    /\ all_transactions = <<>>
    /\ recurring_charges = <<>>
    /\ rc_outcome = "idle"
    /\ LedgerIdle /\ SanIdle /\ FitIdle /\ GrpIdle

\* the first run over the statements now in the folders
FirstRun ==
    /\ rc_outcome = "idle"
    /\ TrackOver(RepeatStreams)

\* another run, the folders and rc_patterns.json untouched since the last one
RunAgain ==
    /\ rc_outcome # "idle"
    /\ TrackOver({all_transactions})

NextRepeat == FirstRun \/ RunAgain

SpecRepeat == InitRepeat /\ [][NextRepeat]_vars

\* a further run would change the state: ENABLED <<NextRepeat>>_vars
RunWouldChange ==
    LET r == LoadTransactions(rc_patterns, all_transactions)
    IN \/ rc_outcome = "idle"
       \/ r.rc_patterns # rc_patterns
       \/ (IF r.raised THEN <<>> ELSE r.recurring_charges) # recurring_charges
       \/ (IF r.raised THEN "raised" ELSE "returned") # rc_outcome

\* the operator keeps running the tracker: WF_vars(NextRepeat), with its
\* enabling condition written out
FairRepeat == SpecRepeat /\ ([]<>~RunWouldChange \/ []<><<NextRepeat>>_vars)

----------------------------------------------------------------------------
(* sanitise applied twice to a list *)

MaxSanLen == 4

SanTransactions == [date : {0, 5, 10}, amount : {-1000, 1000, 500}]

InitSanitise ==
    /\ san_input \in SeqsUpTo(SanTransactions, MaxSanLen)
    /\ san_once = <<>>
    /\ san_removed = {}
    /\ san_twice = <<>>
    /\ san_pc = "start"
    /\ LedgerIdle /\ RcIdle /\ FitIdle /\ GrpIdle

SanitiseOnce ==
    /\ san_pc = "start"
    /\ san_once' = sanitise(san_input)
    /\ san_removed' = CancellingPairs(SortByDate(san_input), 1, {})
    /\ san_pc' = "once"
    /\ UNCHANGED <<san_input, san_twice, ledgerVars, rcVars, fitVars, grpVars>>

SanitiseAgain ==
    /\ san_pc = "once"
    /\ san_twice' = sanitise(san_once)
    /\ san_pc' = "twice"
    /\ UNCHANGED <<san_input, san_once, san_removed, ledgerVars, rcVars, fitVars, grpVars>>

NextSanitise == SanitiseOnce \/ SanitiseAgain

SpecSanitise == InitSanitise /\ [][NextSanitise]_vars

----------------------------------------------------------------------------
(* _fits_interval_pattern applied to a candidate and the sanitised known list *)

MaxKnown == 3

FitKnownTransactions ==
    { [date |-> 0, amount |-> -1000], [date |-> 3, amount |-> 1000],
      [date |-> 500, amount |-> -1000] }

\* candidate dates on both sides of each interval's limits
FitDates ==
    {5, 6, 7, 8, 9, 11, 12, 14, 16, 17, 23, 24, 29, 30, 36, 37, 39, 46,
     71, 72, 90, 108, 109, 117, 143, 144, 180, 216, 217, 234,
     291, 292, 365, 438, 439}

InitFits ==
    /\ fit_known \in SeqsUpTo(FitKnownTransactions, MaxKnown)
    /\ fit_date \in FitDates
    /\ fit_interval \in Intervals
    /\ fit_sanitised = <<>>
    /\ fit_result = FALSE
    /\ fit_pc = "start"
    /\ LedgerIdle /\ RcIdle /\ SanIdle /\ GrpIdle

CheckInterval ==
    /\ fit_pc = "start"
    /\ fit_sanitised' = sanitise(fit_known)
    /\ fit_result' = FitsIntervalPattern(fit_date, sanitise(fit_known), fit_interval)
    /\ fit_pc' = "done"
    /\ UNCHANGED <<fit_known, fit_date, fit_interval, ledgerVars, rcVars, sanVars, grpVars>>

NextFits == CheckInterval

SpecFits == InitFits /\ [][NextFits]_vars

----------------------------------------------------------------------------
(* The grouping specification: group_transactions over a list of transactions *)

MaxGroupLen == 3

\* The transactions the statements may hold: two Aldi purchases, a purchase
\* at a supermarket whose name is three edits from the Aldi key, one at a
\* limited company, two at shops of it (TESCO EXTRA is six edits from TESCO,
\* TESCO EXP within five of both), and a record whose description is a time of
\* day only.
GrpTransactions ==
    { [description |-> <<"A", "L", "D", "I", " ", "S", "T", "O", "R", "E", "S", " ", "1", "2", "3">>, amount |-> -1000],
      [description |-> <<"A", "l", "d", "i", " ", "L", "o", "n", "d", "o", "n">>, amount |-> -500],
      [description |-> <<"A", "S", "D", "A", " ", "S", "T", "O", "R", "E", "S">>, amount |-> -2000],
      [description |-> <<"T", "e", "s", "c", "o", " ", "L", "t", "d", " ", "1", "2", "/", "0", "3", "/", "2", "4">>, amount |-> 300],
      [description |-> <<"T", "E", "S", "C", "O", " ", "E", "X", "T", "R", "A">>, amount |-> -700],
      [description |-> <<"T", "e", "s", "c", "o", " ", "E", "x", "p", " ", "1", "2", ":", "3", "0">>, amount |-> -250],
      [description |-> <<"1", "2", ":", "3", "0">>, amount |-> -100] }

InitGroup ==
    /\ grp_input \in SeqsUpTo(GrpTransactions, MaxGroupLen)
    /\ transaction_groups = <<>>
    /\ grp_pc = "start"
    /\ LedgerIdle /\ RcIdle /\ SanIdle /\ FitIdle

GroupTransactions ==
    /\ grp_pc = "start"
    /\ transaction_groups' = group_transactions(grp_input)
    /\ grp_pc' = "done"
    /\ UNCHANGED <<grp_input, ledgerVars, rcVars, sanVars, fitVars>>

NextGroup == GroupTransactions

SpecGroup == InitGroup /\ [][NextGroup]_vars

----------------------------------------------------------------------------
(* Claims about the ledger *)

\* every (statement, position) of the returned statements
ReturnedPositions ==
    { <<s, i>> \in (1..Len(statements)) \X (1..MaxFileLen) :
        i <= Len(statements[s].transactions) }

ReturnedAt(pos) == statements[pos[1]].transactions[pos[2]]

\* every (file, position) of the statements _parse_*_file built in the last run
BuiltPositions ==
    { <<f, i>> \in (1..Len(file_statements)) \X (1..MaxFileLen) :
        /\ file_statements[f] # None
        /\ i <= Len(file_statements[f][1].transactions) }

BuiltAt(pos) == file_statements[pos[1]][1].transactions[pos[2]]

\* The last run returned, and every statement a file gave in it was built from a
\* balance the operator wrote (no placeholder read as zero is involved).
ReturnedFromSuppliedCheckpoints ==
    /\ outcome = "returned"
    /\ \A f \in 1..Len(file_statements) :
          file_statements[f] # None =>
              ledger[file_statements[f][1].dtstart] \in BalanceTexts
    /\ \A s \in 1..Len(statements) : ledger[statements[s].dtstart] \in BalanceTexts

\* C1: after parse_all_statements, a transaction identity that occurs in two or
\* more reconciled source files (or more than once in them) appears exactly once
\* in the union of the transactions of the returned statements, for every parser.
C1_DuplicateIdentityExactlyOnce ==
    ReturnedFromSuppliedCheckpoints =>
        \A b1, b2 \in BuiltPositions :
            (b1 # b2 /\ BuiltAt(b1).transaction_id = BuiltAt(b2).transaction_id) =>
                Cardinality({ r \in ReturnedPositions :
                    ReturnedAt(r).transaction_id = BuiltAt(b1).transaction_id }) = 1

\* C2: in every returned statement each transaction's running_total is the
\* checkpoint balance plus the amounts of the statement's transactions up to and
\* including it, in date order, for the transaction list as returned.
C2_RunningTotalIsCheckpointPlusPrefix ==
    ReturnedFromSuppliedCheckpoints =>
        \A s \in 1..Len(statements) :
            LET txs == SortByDate(statements[s].transactions)
            IN \A i \in 1..Len(txs) :
                  txs[i].running_total =
                      statements[s].ledger_bal + SumAmounts(SubSeq(txs, 1, i))

\* C3: every returned statement that carries opening and closing balances has
\* closing_balance = opening_balance + the sum of the amounts of the transactions
\* it holds when it is returned.
C3_ClosingIsOpeningPlusSum ==
    (ReturnedFromSuppliedCheckpoints /\ HasBalances(parser)) =>
        \A s \in 1..Len(statements) :
            statements[s].end_balance =
                statements[s].start_balance + SumAmounts(statements[s].transactions)

\* C4: as long as no operator writes a balance for it, a statement whose
\* checkpoint key had no entry when it was first looked up is never returned as
\* reconciled: the empty placeholder the lookup creates is never used as a
\* balance.  (Here a key holds the empty value only if a lookup created it and
\* the operator has not filled it in.)
C4_PlaceholderNeverReconciles ==
    outcome = "returned" =>
        \A s \in 1..Len(statements) : ledger[statements[s].dtstart] \in BalanceTexts

IsReversal(t1, t2) ==
    /\ t1.date = t2.date
    /\ t1.description = t2.description
    /\ t1.amount # 0
    /\ t1.amount = -t2.amount

IsReturned(t) ==
    \E r \in ReturnedPositions :
        /\ ReturnedAt(r).transaction_id = t.transaction_id
        /\ ReturnedAt(r).amount = t.amount

\* C6: within one account a transaction and its reversal (same date, same
\* description, opposite amounts) never get the same identity, and both are in
\* the reconciled output.
C6_ReversalDoesNotCollapse ==
    ReturnedFromSuppliedCheckpoints =>
        \A b1, b2 \in BuiltPositions :
            IsReversal(BuiltAt(b1), BuiltAt(b2)) =>
                /\ BuiltAt(b1).transaction_id # BuiltAt(b2).transaction_id
                /\ IsReturned(BuiltAt(b1))
                /\ IsReturned(BuiltAt(b2))

----------------------------------------------------------------------------
(* Claims about sanitise *)

\* C7: sanitise is idempotent: for every list L of transactions,
\* sanitise(sanitise(L)) equals sanitise(L), the same transactions in the same order.
C7_SanitiseIdempotent ==
    san_pc = "twice" => san_twice = san_once

\* a list from which the first pass removed a pair and kept something
C7_Witness ==
    /\ san_pc = "twice"
    /\ san_once # <<>>
    /\ Len(san_once) < Len(san_input)

----------------------------------------------------------------------------
(* Claims about _fits_interval_pattern *)

\* the canonical day counts, as the claim lists them
CanonicalDayCount ==
    [weekly |-> 7, biweekly |-> 14, monthly |-> 30,
     quarterly |-> 90, biannual |-> 180, annual |-> 365]

\* the days between the candidate and the closest sanitised known date
DaysToClosest ==
    LET distances == {Abs(fit_date - fit_sanitised[i].date) : i \in 1..Len(fit_sanitised)}
    IN CHOOSE d \in distances : \A e \in distances : d <= e

\* C8: for a non-irregular interval and a non-empty sanitised known set the
\* candidate fits iff |d - c| <= 0.2*c, d the days to the closest sanitised known
\* date and c the canonical day count; d = c is accepted, d = 1.3*c is rejected,
\* and for monthly 29 days is accepted and 46 days is rejected.
C8_FitsIffWithinTwentyPercent ==
    (fit_pc = "done" /\ fit_interval # "irregular" /\ fit_sanitised # <<>>) =>
        LET c == CanonicalDayCount[fit_interval]
            d == DaysToClosest
        IN /\ fit_result <=> (5 * Abs(d - c) <= c)
           /\ d = c => fit_result
           /\ 10 * d = 13 * c => ~fit_result
           /\ (fit_interval = "monthly" /\ d = 29) => fit_result
           /\ (fit_interval = "monthly" /\ d = 46) => ~fit_result

\* a monthly candidate 39 days (1.3 * 30) from the only date sanitise kept, rejected
C8_Witness ==
    /\ fit_pc = "done"
    /\ fit_interval = "monthly"
    /\ Len(fit_known) = 3
    /\ Len(fit_sanitised) = 1
    /\ DaysToClosest = 39
    /\ ~fit_result

----------------------------------------------------------------------------
(* Claims about _load_transactions *)

StreamIds == {all_transactions[i].transaction_id : i \in 1..Len(all_transactions)}

\* C9: for a pattern whose persisted status is cancelled a classification run
\* accepts no candidate: new_transactions is empty and the persisted
\* transaction_ids are the same after the run as before it, while the known
\* transactions are still reported.
C9_CancelledAcceptsNoCandidate ==
    [][\A name \in ChargeNames :
          (rc_patterns[name].status = "cancelled" /\ rc_outcome' = "returned") =>
              /\ recurring_charges'[name].new_transactions = <<>>
              /\ rc_patterns'[name].transaction_ids = rc_patterns[name].transaction_ids
              /\ recurring_charges'[name].known_transactions =
                     KnownTransactions(Range(rc_patterns[name].transaction_ids),
                                       all_transactions')]_vars

\* C10: over any sequence of classification runs the persisted transaction_ids
\* of every pattern only grow: every id persisted before a run is still
\* persisted after it, also when the transaction has left the stream or
\* sanitise removed it from the baseline.
C10_TransactionIdsOnlyGrow ==
    [][\A name \in ChargeNames :
          Range(rc_patterns[name].transaction_ids)
              \subseteq Range(rc_patterns'[name].transaction_ids)]_vars

\* a run has returned with a persisted id whose transaction is no longer in the
\* stream and with known transactions that sanitise removed
C10_Witness ==
    /\ rc_outcome = "returned"
    /\ \E name \in ChargeNames :
          /\ \E id \in Range(rc_patterns[name].transaction_ids) : id \notin StreamIds
          /\ sanitise(recurring_charges[name].known_transactions)
                 # recurring_charges[name].known_transactions

----------------------------------------------------------------------------
(* Claims about one file and its checkpoint lookup *)

\* the date the parser passes to _read_ledger_amount for the file
LookupDate == FileOrder(parser, MakeTransactions(parser, files[1]))[1].date

\* C11: a checkpoint lookup for a key that is absent from the store adds exactly
\* that key with an empty value, leaves every other entry unchanged and returns
\* no statement for the file; a lookup for a key that is present does not write
\* to the store.
C11_AbsentKeyAddsOnlyPlaceholder ==
    [][(outcome' = "parsed" /\ files[1] # <<>>) =>
          /\ ledger[LookupDate] = Absent =>
                /\ ledger' = [ledger EXCEPT ![LookupDate] = Empty]
                /\ file_statements' = <<None>>
          /\ ledger[LookupDate] # Absent => ledger' = ledger]_vars

\* a file was parsed and gave no statement, a placeholder is in the store and
\* another key still holds the balance an operator wrote
C11_Witness ==
    /\ outcome = "parsed"
    /\ files[1] # <<>>
    /\ file_statements = <<None>>
    /\ ledger[LookupDate] = Empty
    /\ \E d \in Dates : d # LookupDate /\ ledger[d] \in BalanceTexts

----------------------------------------------------------------------------
(* Claims about failures inside a run *)

\* what a run over the folder returns when it holds only the file fs[f]
RunOverOneFile(f) == ParseAllStatements(parser, ledger, <<files[f]>>)

\* C12: a source file that cannot be parsed or yields no transaction is skipped:
\* no statement is returned for it and the remaining files of the folder are
\* processed and returned as if the bad file were not there.
C12_BadFileIsSkipped ==
    [][\A f \in 1..2 :
          (outcome' # "idle" /\ Len(files) = 2 /\ files[f] = <<>>) =>
              LET r == RunOverOneFile(3 - f)
              IN /\ f <= Len(file_statements') => file_statements'[f] = None
                 /\ outcome' = IF r.raised THEN "raised" ELSE "returned"
                 /\ statements' = IF r.raised THEN <<>> ELSE r.statements
                 /\ ledger' = r.ledger]_vars

\* a run with a bad file first has returned the statement of the file after it
C12_Witness ==
    /\ outcome = "returned"
    /\ Len(files) = 2
    /\ files[1] = <<>>
    /\ file_statements[1] = None
    /\ statements # <<>>

\* C13: a missing-checkpoint failure is local to its statement in every run:
\* whenever a checkpoint has no operator-supplied value (absent key or empty
\* placeholder) the statement is skipped and the run goes on; the batch never
\* aborts because of it, for every parser and also at the second lookup of the
\* QIF reconciler.  (In this model a run raises only out of a checkpoint lookup.)
C13_MissingCheckpointNeverAborts ==
    outcome # "raised"

----------------------------------------------------------------------------
(* Claims about reproducibility *)

\* the ledger of an account: every retained transaction id with its running total
LedgerOf(statements_list) ==
    { <<statements_list[s].transactions[i].transaction_id,
        statements_list[s].transactions[i].running_total>> :
        <<s, i>> \in { pos \in (1..Len(statements_list)) \X (1..MaxFileLen) :
                         pos[2] <= Len(statements_list[pos[1]].transactions) } }

\* C14: a run is reproducible: two runs over the same set of source files that
\* start from the same contents of the checkpoint store produce the same ledger
\* for the account (same retained transaction ids, same running totals).  The
\* parsers other than QIF take the files in the order glob lists them, which the
\* set of files does not fix: the second run is the one that meets them in the
\* opposite order.  (QIF sorts the file names.)  Every checkpoint the files
\* need has been supplied by the operator.
C14_RunIsReproducible ==
    [][(/\ outcome' = "returned"
        /\ parser # "qif"
        /\ \A d \in Dates : ledger[d] \in BalanceTexts) =>
          LET other == ParseAllStatements(parser, ledger, Reverse(files))
          IN /\ ~other.raised
             /\ LedgerOf(other.statements) = LedgerOf(statements')]_vars

----------------------------------------------------------------------------
(* Claims about which file a retained transaction belongs to *)

\* the statement of file f was built and holds a transaction with this id
BuiltWith(f, id) ==
    \E b \in BuiltPositions : b[1] = f /\ BuiltAt(b).transaction_id = id

\* C18: when the same transaction identity occurs in several files of one
\* account, the single retained copy belongs to the statement of the file that
\* is processed first among those whose statement was built successfully, and
\* every later file's statement has that transaction removed.
C18_RetainedCopyBelongsToFirstFile ==
    ReturnedFromSuppliedCheckpoints =>
        \A b1, b2 \in BuiltPositions :
            LET id == BuiltAt(b1).transaction_id
                first == b1[1]
            IN (/\ first < b2[1]
                /\ BuiltAt(b2).transaction_id = id
                /\ \A f \in 1..(first - 1) : ~BuiltWith(f, id)) =>
                   /\ id \in IdsOf(file_kept[first])
                   /\ \A f \in (first + 1)..Len(file_kept) : id \notin IdsOf(file_kept[f])

\* the ids held by the statements a run returns
ReturnedIds(r) ==
    UNION { IdsOf(r.statements[s].transactions) : s \in 1..Len(r.statements) }

\* file f of the run was parsed, and the balance for the earliest date of its
\* transactions, like the one its statement was built from, is one the operator
\* wrote
BuiltSuccessfully(r, f) ==
    /\ r.file_statements[f] # None
    /\ r.ledger[r.file_statements[f][1].dtstart] \in BalanceTexts
    /\ r.ledger[MinDate(r.file_statements[f][1].transactions)] \in BalanceTexts

\* C27: no transaction is lost by deduplication: every transaction identity that
\* occurs in at least one source file whose statement was built successfully
\* (file parsed, checkpoint present for its earliest date) appears in some
\* returned statement, and an identity is marked as seen only by a file whose
\* statement is actually returned (so every seen identity is in a returned
\* statement).
C27_NoTransactionLostByDeduplication ==
    [][outcome' = "returned" =>
        LET r == ParseAllStatements(parser, ledger, files)
        IN /\ \A f \in 1..Len(r.file_statements) :
                 BuiltSuccessfully(r, f) =>
                     IdsOf(r.file_statements[f][1].transactions) \subseteq ReturnedIds(r)
           /\ r.seen_transactions \subseteq ReturnedIds(r)]_vars

----------------------------------------------------------------------------
(* Claims about the statement one file gives *)

\* the file was parsed and gave a statement built from a balance the operator wrote
ParsedFromSuppliedCheckpoint ==
    /\ outcome = "parsed"
    /\ file_statements # <<None>>
    /\ ledger[file_statements[1][1].dtstart] \in BalanceTexts

\* C17: for every reconciled statement the closing balance equals the final
\* running total (checkpoint + sum of all the statement's amounts) and the
\* opening balance equals closing minus that sum, i.e. the checkpoint.
C17_ClosingIsFinalRunningTotal ==
    (ParsedFromSuppliedCheckpoint /\ HasBalances(parser)) =>
        LET statement == file_statements[1][1]
            txs == statement.transactions
            checkpoint == Decimal(ledger[statement.dtstart])
        IN /\ statement.end_balance = checkpoint + SumAmounts(txs)
           /\ statement.end_balance = txs[Len(txs)].running_total
           /\ statement.start_balance = checkpoint

\* C19: the checkpoint looked up for a statement is keyed by the earliest date
\* among the statement's transactions, whatever order the source file lists its
\* transactions in.
C19_CheckpointKeyIsEarliestDate ==
    (outcome = "parsed" /\ file_statements # <<None>>) =>
        file_statements[1][1].dtstart = MinDate(file_statements[1][1].transactions)

----------------------------------------------------------------------------
(* Claims about a classification run *)

\* the known transactions of a charge in the stream of the run being taken
KnownOf(name) ==
    KnownTransactions(Range(rc_patterns[name].transaction_ids), all_transactions')

\* its candidates in that stream
CandidatesOf(name) ==
    NewMatchingTrans(rc_patterns[name].pattern, Range(rc_patterns[name].transaction_ids),
                     all_transactions')

\* C20: when the sanitised known set of a pattern is empty (no known transaction
\* in the stream, or all of them removed as cancelling pairs) the amount
\* comparison is skipped, every candidate passes the amount check, and the
\* classification run completes without error.
C20_EmptySanitisedSetSkipsAmountCheck ==
    [][rc_outcome' # "idle" =>
        \A name \in ChargeNames :
            sanitise(KnownOf(name)) = <<>> =>
                /\ ~AmountTestRaises(KnownOf(name), <<>>, CandidatesOf(name))
                /\ \A i \in 1..Len(CandidatesOf(name)) :
                      GoodAmountDiff(CandidatesOf(name)[i].amount, KnownOf(name), <<>>)
                /\ rc_outcome' = "returned"]_vars

\* C16: a recurring-charge pattern whose match expression is empty or invalid
\* matches no transaction: the run completes without error, the pattern gets
\* zero candidates and zero newly accepted transactions, and the other patterns
\* are classified and persisted normally.
C16_BadPatternMatchesNothing ==
    [][rc_outcome' # "idle" =>
        \A name \in ChargeNames :
            rc_patterns[name].pattern \in {""} \cup InvalidPatterns =>
                /\ rc_outcome' = "returned"
                /\ CandidatesOf(name) = <<>>
                /\ recurring_charges'[name].new_transactions = <<>>
                /\ \A other \in ChargeNames \ {name} :
                      LET charge == ClassifyCharge(rc_patterns[other], all_transactions')
                      IN /\ recurring_charges'[other] = charge
                         /\ rc_patterns'[other] = UpdatedConfig(rc_patterns[other], charge)]_vars

----------------------------------------------------------------------------
(* Claims about the grouping *)

\* the raw description is a variation of the group with this key
IsVariationOf(description, key) ==
    \E g \in 1..Len(transaction_groups) :
        /\ transaction_groups[g].key = key
        /\ \E v \in 1..Len(transaction_groups[g].variations) :
              transaction_groups[g].variations[v] = description

\* C15: a description that matches a hand-coded merchant alias is grouped under
\* that alias's canonical key whatever else has been grouped before it (every
\* description containing ALDI ends up in the group keyed 'ALDI STORE'), with
\* the raw description retained as a variation of that group.
C15_AliasGroupedUnderCanonicalKey ==
    grp_pc = "done" =>
        \A i \in 1..Len(grp_input) :
            AliasKey(Upper(grp_input[i].description)) # None =>
                IsVariationOf(grp_input[i].description,
                              AliasKey(Upper(grp_input[i].description))[1])

\* the position of the first group, in insertion order, whose key is within the
\* threshold of the normalised description; 0 if there is none
FirstGroupWithin(clean_desc) ==
    LET near == {g \in 1..Len(transaction_groups) :
                    distance(clean_desc, transaction_groups[g].key) <= threshold}
    IN IF near = {} THEN 0 ELSE CHOOSE g \in near : \A h \in near : g <= h

VariationsOf(g) == Range(transaction_groups[g].variations)

RECURSIVE SumTotals(_)
SumTotals(groups) == IF groups = <<>> THEN 0 ELSE Head(groups).total + SumTotals(Tail(groups))

RECURSIVE CountVariations(_)
CountVariations(groups) ==
    IF groups = <<>> THEN 0 ELSE Len(Head(groups).variations) + CountVariations(Tail(groups))

\* C26: every input transaction is accumulated exactly once: its raw
\* description is a variation of exactly one group, the group totals sum to the
\* sum of all input amounts and the variation counts to the number of inputs.
C26_EveryTransactionAccumulatedOnce ==
    grp_pc = "done" =>
        /\ \A i \in 1..Len(grp_input) :
              Cardinality({g \in 1..Len(transaction_groups) :
                              grp_input[i].description \in VariationsOf(g)}) = 1
        /\ SumTotals(transaction_groups) = SumAmounts(grp_input)
        /\ CountVariations(transaction_groups) = Len(grp_input)

\* C30: any two transactions with the same non-empty normalised description
\* are in the same group, and in no other, whatever was processed between them.
C30_SameDescriptionSameGroup ==
    grp_pc = "done" =>
        \A i, j \in 1..Len(grp_input) :
            LET clean_desc == clean_description(grp_input[i].description)
            IN (clean_desc # <<>> /\ clean_description(grp_input[j].description) = clean_desc)
               => \E g \in 1..Len(transaction_groups) :
                     /\ {grp_input[i].description, grp_input[j].description}
                            \subseteq VariationsOf(g)
                     /\ \A h \in 1..Len(transaction_groups) \ {g} :
                           /\ grp_input[i].description \notin VariationsOf(h)
                           /\ grp_input[j].description \notin VariationsOf(h)

\* two different raw descriptions with one normalised description, a
\* transaction of another group processed between them
C30_Witness ==
    /\ grp_pc = "done"
    /\ Len(grp_input) = 3
    /\ grp_input[1].description # grp_input[3].description
    /\ clean_description(grp_input[1].description) # <<>>
    /\ clean_description(grp_input[1].description) = clean_description(grp_input[3].description)
    /\ Len(transaction_groups) = 2
    /\ grp_input[2].description \in VariationsOf(2)
    /\ {grp_input[1].description, grp_input[3].description} \subseteq VariationsOf(1)

----------------------------------------------------------------------------
(* Claims about the pairs sanitise removes *)

\* the list sanitise scans
SanSorted == SortByDate(san_input)

\* positions i < j of SanSorted whose amounts sum to zero within the tolerance,
\* the later at most 7 days after the earlier
Qualify(i, j) ==
    /\ i < j
    /\ Abs(SanSorted[i].amount + SanSorted[j].amount) < CancelTolerancePence
    /\ SanSorted[j].date - SanSorted[i].date <= CancelWindowDays

\* the ways to split the removed positions into disjoint pairs
Pairings ==
    { M \in SUBSET { p \in san_removed \X san_removed : p[1] < p[2] } :
        \A r \in san_removed : Cardinality({p \in M : p[1] = r \/ p[2] = r}) = 1 }

\* k was already paired when i was scanned
PairedBefore(M, k, i) == \E p \in M : p[2] = k /\ p[1] < i

\* C22: sanitise removes transactions only in disjoint pairs whose amounts sum
\* to zero within 0.01, the later at most 7 days after the earlier; scanning
\* oldest first, an unpaired transaction is paired with the earliest later
\* unpaired transaction that qualifies; all others are returned, in date order.
C22_RemovesOnlyGreedyDisjointPairs ==
    san_pc = "once" =>
        /\ san_removed \subseteq 1..Len(SanSorted)
        /\ san_once = KeepNotRemoved(SanSorted, 1, san_removed)
        /\ \A k \in 1..(Len(san_once) - 1) : san_once[k].date <= san_once[k + 1].date
        /\ \E M \in Pairings :
              /\ \A p \in M : Qualify(p[1], p[2])
              /\ \A p \in M : \A k \in (p[1] + 1)..(p[2] - 1) :
                    Qualify(p[1], k) => PairedBefore(M, k, p[1])
              /\ \A i \in 1..Len(SanSorted) : i \notin san_removed =>
                    \A k \in (i + 1)..Len(SanSorted) :
                        Qualify(i, k) => PairedBefore(M, k, i)

\* a pair was removed and a later transaction that also cancels the first of
\* the pair, within the 7 days, was returned
C22_Witness ==
    /\ san_pc = "once"
    /\ san_removed = {1, 2}
    /\ Len(san_once) = 2
    /\ Qualify(1, 3)
    /\ san_once[1] = SanSorted[3]

----------------------------------------------------------------------------
(* Claims about the candidates and the persisted ids *)

\* the sanitised known transactions of a charge in the stream of the run being taken
SanitisedOf(name) == sanitise(KnownOf(name))

\* |amount - avg| / |avg| < 0.2 with avg the signed mean of the sanitised known
\* amounts, skipped when that set is empty or avg is 0
AmountCheck(name, amount) ==
    LET total == SumAmounts(SanitisedOf(name))
        count == Len(SanitisedOf(name))
    IN \/ count = 0
       \/ total = 0
       \/ 5 * Abs(amount * count - total) < Abs(total)

\* C21: a candidate is accepted as new iff the interval is irregular, or both
\* the amount check (|amount - avg| / |avg| < 0.2, skipped when the sanitised
\* known set is empty or avg is 0) and the interval check pass; transactions
\* whose id is already known are never candidates.
C21_AcceptedIffAmountAndIntervalPass ==
    [][rc_outcome' = "returned" =>
        \A name \in ChargeNames :
            /\ \A i \in 1..Len(CandidatesOf(name)) :
                  LET trans == CandidatesOf(name)[i]
                  IN /\ trans.transaction_id \notin Range(rc_patterns[name].transaction_ids)
                     /\ trans \in Range(recurring_charges'[name].new_transactions)
                        <=> \/ rc_patterns[name].interval = "irregular"
                            \/ /\ AmountCheck(name, trans.amount)
                               /\ FitsIntervalPattern(trans.date, SanitisedOf(name),
                                                      rc_patterns[name].interval)
            /\ Range(recurring_charges'[name].new_transactions)
                  \subseteq Range(CandidatesOf(name))]_vars

\* C29: after any classification run the persisted transaction_ids of every
\* pattern contain no id twice, even when the stream holds a transaction id
\* more than once.
C29_PersistedIdsHoldNoIdTwice ==
    \A name \in DOMAIN rc_patterns :
        \A i, j \in 1..Len(rc_patterns[name].transaction_ids) :
            i # j => rc_patterns[name].transaction_ids[i] # rc_patterns[name].transaction_ids[j]

\* C23: every transaction accepted as new for a pattern in a run has its id in
\* the pattern's persisted transaction_ids after that run, and a transaction of
\* the stream whose id is persisted before a run is classified as known in it
\* and not reported as new.
C23_AcceptedBecomesKnown ==
    [][rc_outcome' = "returned" =>
        \A name \in ChargeNames :
            /\ \A i \in 1..Len(recurring_charges'[name].new_transactions) :
                  recurring_charges'[name].new_transactions[i].transaction_id
                      \in Range(rc_patterns'[name].transaction_ids)
            /\ \A i \in 1..Len(all_transactions') :
                  all_transactions'[i].transaction_id \in Range(rc_patterns[name].transaction_ids)
                  => /\ all_transactions'[i] \in Range(recurring_charges'[name].known_transactions)
                     /\ all_transactions'[i] \notin Range(recurring_charges'[name].new_transactions)]_vars

\* a transaction accepted by an earlier run was met again, as known, in a run
\* that accepted another one
C23_Witness ==
    /\ rc_outcome = "returned"
    /\ recurring_charges["Netflix"].known_transactions # <<>>
    /\ recurring_charges["Netflix"].new_transactions # <<>>

\* C24: a classification run never changes a pattern's status,
\* status_change_date, match pattern or interval (a cancelled pattern is never
\* set back to running), and neither adds nor removes pattern names.
C24_RunKeepsLifecycleAndConfiguration ==
    [][rc_outcome' # "idle" =>
        /\ DOMAIN rc_patterns' = DOMAIN rc_patterns
        /\ \A name \in DOMAIN rc_patterns :
              /\ rc_patterns'[name].status = rc_patterns[name].status
              /\ rc_patterns'[name].status_change_date = rc_patterns[name].status_change_date
              /\ rc_patterns'[name].pattern = rc_patterns[name].pattern
              /\ rc_patterns'[name].interval = rc_patterns[name].interval]_vars

\* a run has returned with a pattern the operator had cancelled
C24_Witness ==
    /\ rc_outcome = "returned"
    /\ rc_patterns["Netflix"].status = "cancelled"
    /\ rc_patterns["Netflix"].transaction_ids # <<>>

\* another run over the same stream accepts nothing and persists what is there
FixedPoint ==
    LET r == LoadTransactions(rc_patterns, all_transactions)
    IN /\ rc_outcome # "idle"
       /\ r.rc_patterns = rc_patterns
       /\ ~r.raised =>
             \A name \in ChargeNames : r.recurring_charges[name].new_transactions = <<>>

\* the ids a run added to a pattern are ids of stream transactions that the
\* pattern's expression finds
AddsOnlyMatchingIds ==
    \A name \in ChargeNames :
        \A id \in Range(rc_patterns'[name].transaction_ids)
                    \ Range(rc_patterns[name].transaction_ids) :
            \E i \in 1..Len(all_transactions') :
                /\ all_transactions'[i].transaction_id = id
                /\ Matches(rc_patterns[name].pattern, all_transactions'[i].description)

\* C28: with a fixed stream and no operator edits, repeated runs reach a fixed
\* point: from some run on no candidate is accepted and the persisted
\* transaction_ids no longer change; every id ever added is the id of a stream
\* transaction whose description matches the pattern.
C28_RepeatedRunsReachFixedPoint ==
    /\ <>[]FixedPoint
    /\ [][AddsOnlyMatchingIds]_vars

\* a run over the three monthly charges has returned at the fixed point: all
\* three are persisted and met as known
C28_Witness ==
    /\ FixedPoint
    /\ rc_outcome = "returned"
    /\ rc_patterns["Netflix"].transaction_ids = <<1, 3, 9>>
    /\ Len(recurring_charges["Netflix"].known_transactions) = 3

====
